---- MODULE Spec2Model ----
(***************************************************************************)
(* Model of diesel/src/deserialize.rs: the scalar decoder (FromSql), the   *)
(* static row builder (FromStaticSqlRow), the Queryable and                *)
(* QueryableByName dispatch paths of FromSqlRow, and the field-count       *)
(* witness (StaticallySizedRow).                                           *)
(*                                                                         *)
(* A call is modelled as one action that records the call (op, target),    *)
(* its result and the sequence of events (row reads, decoder calls,        *)
(* adapter calls) it performed.  Positions are zero-based as in the code.  *)
(***************************************************************************)
EXTENDS Integers, Sequences, FiniteSets

VARIABLES row, op, target, bytes, result, trace, prev

vars == <<row, op, target, bytes, result, trace, prev>>

----------------------------------------------------------------------------
(* Bounds of the model *)

MaxRowLen == 3
MaxInt == 3

----------------------------------------------------------------------------
(* Option<T> and Result<T> *)

None == [some |-> FALSE]
Some(x) == [some |-> TRUE, val |-> x]

Ok(v) == [ok |-> TRUE, val |-> v]
Err(e) == [ok |-> FALSE, err |-> e]

UnexpectedNullError == [kind |-> "UnexpectedNull"]
UnexpectedEndOfRow == [kind |-> "UnexpectedEndOfRow"]
\* an error made from a formatted String: format!(...).into()
MessageError(fmt, x) == [kind |-> "Message", fmt |-> fmt, arg |-> x]
\* the backend's own failure to read a payload as the primitive asked for
BackendError(want) == [kind |-> "Backend", want |-> want]
ColumnNotFound(name) == [kind |-> "ColumnNotFound", column |-> name]

----------------------------------------------------------------------------
(* Raw values, fields and rows *)

IntValues == 1..MaxInt
TextValues == {"Sean"}

\* a payload is opaque; kind says which primitive the backend encoded
IntRaw(n) == [kind |-> "int", int |-> n, text |-> ""]
TextRaw(s) == [kind |-> "text", int |-> 0, text |-> s]

RawValues == {IntRaw(n) : n \in IntValues} \cup {TextRaw(s) : s \in TextValues}

\* Field::value(): nothing denotes SQL null
FieldValues == {None} \cup {Some(b) : b \in RawValues}

ColumnNames == {"id", "name", "extra", "age"}

Fields == [name : ColumnNames, value : FieldValues]

DistinctNames(r) == \A i, j \in 1..Len(r) : r[i].name = r[j].name => i = j

\* no target looks up "extra" or "age": rows are taken up to renaming these
\* two, "age" naming a column only after "extra" names one
UnusedNamesInOrder(r) ==
    \A i \in 1..Len(r) :
        r[i].name = "age" => \E j \in 1..(i - 1) : r[j].name = "extra"

\* Row::get(idx): zero-based, nothing when out of range
Row_get(r, idx) == IF idx >= 0 /\ idx < Len(r) THEN Some(r[idx + 1]) ELSE None

\* Row::partial_row(lo..hi): the view of positions lo..hi-1
Row_partial_row(r, lo, hi) ==
    [i \in 1..(IF Len(r) < hi THEN (IF Len(r) > lo THEN Len(r) - lo ELSE 0) ELSE hi - lo)
        |-> r[lo + i]]

\* NamedRow::index_of(name): exact match on the column name
NamedRow_index_of(r, name) ==
    IF \E i \in 1..Len(r) : r[i].name = name
    THEN Some((CHOOSE i \in 1..Len(r) :
                  r[i].name = name /\ \A j \in 1..(i - 1) : r[j].name # name) - 1)
    ELSE None

----------------------------------------------------------------------------
(* Events a call performs *)

EvGet(pos) == [ev |-> "get", pos |-> pos]
EvDecode(T, pos) == [ev |-> "from_nullable_sql", T |-> T, pos |-> pos]
EvAdapter(T) == [ev |-> "Queryable::build", T |-> T, pos |-> -1]
EvNamed(T) == [ev |-> "QueryableByName::build", T |-> T, pos |-> -1]
EvByName(name) == [ev |-> "NamedRow::get", T |-> name, pos |-> -1]
EvStatic(T) == [ev |-> "FromStaticSqlRow::build_from_row", T |-> T, pos |-> -1]

Shift(tr, k) ==
    [i \in 1..Len(tr) |->
        IF tr[i].pos >= 0 THEN [tr[i] EXCEPT !.pos = @ + k] ELSE tr[i]]

Outcome(res, tr) == [res |-> res, tr |-> tr]

----------------------------------------------------------------------------
(* Scalar decoder: FromSql *)

ScalarTargets == {"i32", "String", "MyEnum", "LowercaseString", "Option<i32>"}

\* targets whose from_nullable_sql is overridden to accept SQL null
NullableTargets == {"Option<i32>"}

ToLowercase(s) == IF s = "Sean" THEN "sean" ELSE s

\* <i32 as FromSql<Integer, DB>>::from_sql
i32_from_sql(b) == IF b.kind = "int" THEN Ok(b.int) ELSE Err(BackendError("Integer"))

\* <String as FromSql<Text, DB>>::from_sql
String_from_sql(b) == IF b.kind = "text" THEN Ok(b.text) ELSE Err(BackendError("Text"))

\* variant: an unrecognized integer falls into the first variant
MyEnum_from_sql_AlwaysA(b) ==
    LET r == i32_from_sql(b) IN
    IF ~r.ok THEN r
    ELSE IF r.val = 2 THEN Ok("MyEnum::B") ELSE Ok("MyEnum::A")

\* match i32::from_sql(bytes)? { 1 => A, 2 => B, x => Err(format!(...)) }
MyEnum_from_sql(b) ==
    LET r == i32_from_sql(b) IN
    IF ~r.ok THEN r
    ELSE IF r.val = 1 THEN Ok("MyEnum::A")
    ELSE IF r.val = 2 THEN Ok("MyEnum::B")
    ELSE Err(MessageError("Unrecognized variant {}", r.val))

\* String::from_sql(bytes).map(|s| LowercaseString(s.to_lowercase()))
LowercaseString_from_sql(b) ==
    LET r == String_from_sql(b) IN
    IF r.ok THEN Ok([LowercaseString |-> ToLowercase(r.val)]) ELSE r

\* <Option<i32> as FromSql<Nullable<Integer>, DB>>::from_sql
Option_i32_from_sql(b) ==
    LET r == i32_from_sql(b) IN IF r.ok THEN Ok(Some(r.val)) ELSE r

FromSql_from_sql(T, b) ==
    CASE T = "i32" -> i32_from_sql(b)
      [] T = "String" -> String_from_sql(b)
      [] T = "MyEnum" -> MyEnum_from_sql(b)
      [] T = "LowercaseString" -> LowercaseString_from_sql(b)
      [] T = "Option<i32>" -> Option_i32_from_sql(b)

\* variant: an absent payload reported with the wrong error
default_from_nullable_sql_EndOfRow(T, bs) ==
    IF bs.some THEN FromSql_from_sql(T, bs.val) ELSE Err(UnexpectedEndOfRow)

\* the default body of FromSql::from_nullable_sql
default_from_nullable_sql(T, bs) ==
    IF bs.some THEN FromSql_from_sql(T, bs.val) ELSE Err(UnexpectedNullError)

\* the override of a nullable-aware target: absent is "no value"
Option_from_nullable_sql(T, bs) ==
    IF bs.some THEN FromSql_from_sql(T, bs.val) ELSE Ok(None)

FromSql_from_nullable_sql(T, bs) ==
    IF T \in NullableTargets
    THEN Option_from_nullable_sql(T, bs)
    ELSE default_from_nullable_sql(T, bs)

----------------------------------------------------------------------------
(* Static row builder: FromStaticSqlRow *)

TupleTargets == {"(i32, String)", "(Option<i32>, String)", "(i32, String, MyEnum)"}

StaticTargets == ScalarTargets \cup TupleTargets

\* the slots of a row type, in order
Slots(RT) ==
    CASE RT = "(i32, String)" -> <<"i32", "String">>
      [] RT = "(Option<i32>, String)" -> <<"Option<i32>", "String">>
      [] RT = "(i32, String, MyEnum)" -> <<"i32", "String", "MyEnum">>
      [] OTHER -> <<RT>>

\* variant: reads the last field of the row instead of field 0
SingleValue_build_from_row_LastField(T, r) ==
    LET f == Row_get(r, Len(r) - 1) IN
    IF ~f.some
    THEN Outcome(Err(UnexpectedEndOfRow), <<EvStatic(T), EvGet(0)>>)
    ELSE Outcome(FromSql_from_nullable_sql(T, f.val.value),
                 <<EvStatic(T), EvGet(Len(r) - 1), EvDecode(T, Len(r) - 1)>>)

\* variant: a missing field is handed to the decoder like a null field
SingleValue_build_from_row_Flatten(T, r) ==
    LET f == Row_get(r, 0) IN
    Outcome(FromSql_from_nullable_sql(T, IF f.some THEN f.val.value ELSE None),
            <<EvStatic(T), EvGet(0), EvDecode(T, 0)>>)

\* variant: a missing field reported as a null field
SingleValue_build_from_row_NullOnEnd(T, r) ==
    LET f == Row_get(r, 0) IN
    IF ~f.some
    THEN Outcome(Err(UnexpectedNullError), <<EvStatic(T), EvGet(0)>>)
    ELSE Outcome(FromSql_from_nullable_sql(T, f.val.value),
                 <<EvStatic(T), EvGet(0), EvDecode(T, 0)>>)

\* impl FromStaticSqlRow<ST, DB> for T where T: FromSql<ST, DB>, ST: SingleValue
SingleValue_build_from_row(T, r) ==
    LET f == Row_get(r, 0) IN
    IF ~f.some
    THEN Outcome(Err(UnexpectedEndOfRow), <<EvStatic(T), EvGet(0)>>)
    ELSE Outcome(FromSql_from_nullable_sql(T, f.val.value),
                 <<EvStatic(T), EvGet(0), EvDecode(T, 0)>>)

\* impl FromStaticSqlRow<(ST0, ..), DB> for (T0, ..): positions 0..N in order,
\* each slot built from its own one-field sub-row, `?` on every slot
RECURSIVE Tuple_build_slots(_, _, _, _, _)
Tuple_build_slots(Ts, r, i, acc, tr) ==
    IF i = Len(Ts)
    THEN Outcome(Ok(acc), tr)
    ELSE LET o == SingleValue_build_from_row(Ts[i + 1], Row_partial_row(r, i, i + 1)) IN
         IF ~o.res.ok
         THEN Outcome(o.res, tr \o Shift(o.tr, i))
         ELSE Tuple_build_slots(Ts, r, i + 1, Append(acc, o.res.val), tr \o Shift(o.tr, i))

Tuple_build_from_row(RT, r) == Tuple_build_slots(Slots(RT), r, 0, <<>>, <<EvStatic(RT)>>)

FromStaticSqlRow_build_from_row(RT, r) ==
    IF RT \in TupleTargets
    THEN Tuple_build_from_row(RT, r)
    ELSE SingleValue_build_from_row(RT, r)

----------------------------------------------------------------------------
(* Queryable path: FromSqlRow<ST, DB> for T: Queryable<ST, DB> *)

QueryableTargets == {"User", "UserManual", "LowercaseString"}

\* Queryable::Row, the intermediate row type of a target
Queryable_Row(T) ==
    CASE T = "User" -> "(i32, String)"
      [] T = "UserManual" -> "(i32, String)"
      [] T = "LowercaseString" -> "String"

\* Queryable::build, the adapter from the intermediate to the target
Queryable_build(T, t) ==
    CASE T = "User" -> [id |-> t[1], name |-> t[2]]
      [] T = "UserManual" -> [id |-> t[1], name |-> ToLowercase(t[2])]
      [] T = "LowercaseString" -> [LowercaseString |-> ToLowercase(t)]

\* variant: the error of the static build is replaced, not handed on
Queryable_build_from_row_MasksError(T, r) ==
    LET o == FromStaticSqlRow_build_from_row(Queryable_Row(T), r) IN
    IF ~o.res.ok
    THEN Outcome(Err(UnexpectedEndOfRow), o.tr)
    ELSE Outcome(Ok(Queryable_build(T, o.res.val)), Append(o.tr, EvAdapter(T)))

\* let row = <T::Row as FromStaticSqlRow<ST, DB>>::build_from_row(row)?;
\* Ok(T::build(row))
Queryable_build_from_row(T, r) ==
    LET o == FromStaticSqlRow_build_from_row(Queryable_Row(T), r) IN
    IF ~o.res.ok
    THEN Outcome(o.res, o.tr)
    ELSE Outcome(Ok(Queryable_build(T, o.res.val)), Append(o.tr, EvAdapter(T)))

----------------------------------------------------------------------------
(* Field-count witness: StaticallySizedRow *)

\* the SQL type tag a Queryable target is declared against
Queryable_ST(T) ==
    CASE T = "User" -> <<"Integer", "Text">>
      [] T = "UserManual" -> <<"Integer", "Text">>
      [] T = "LowercaseString" -> <<"Text">>

\* <ST as TupleSize>::SIZE
TupleSize_SIZE(ST) == Len(ST)

\* variant: every target counted as one field
FIELD_COUNT_One(T) == 1

\* const FIELD_COUNT: usize = <ST as TupleSize>::SIZE;
FIELD_COUNT(T) == TupleSize_SIZE(Queryable_ST(T))

----------------------------------------------------------------------------
(* Named path: FromSqlRow<Untyped, DB> for T: QueryableByName<DB> *)

NamedTargets == {"User", "UserDeserializeAs"}

\* the struct fields of a target in declaration order: column name and decoder
NamedFields(T) ==
    CASE T = "User" -> <<[name |-> "id", T |-> "i32"], [name |-> "name", T |-> "String"]>>
      [] T = "UserDeserializeAs" ->
            <<[name |-> "id", T |-> "i32"], [name |-> "name", T |-> "LowercaseString"]>>

\* the struct a target makes of its decoded fields
NamedStruct(T, vs) ==
    CASE T = "User" -> [id |-> vs[1], name |-> vs[2]]
      [] T = "UserDeserializeAs" -> [id |-> vs[1], name |-> vs[2].LowercaseString]

\* NamedRow::get(column_name): locate by name, then decode the field found
NamedRow_get(T, r, name) ==
    LET idx == NamedRow_index_of(r, name) IN
    IF ~idx.some
    THEN Outcome(Err(ColumnNotFound(name)), <<EvByName(name)>>)
    ELSE Outcome(FromSql_from_nullable_sql(T, Row_get(r, idx.val).val.value),
                 <<EvByName(name), EvGet(idx.val), EvDecode(T, idx.val)>>)

RECURSIVE Named_build_fields(_, _, _, _, _)
Named_build_fields(T, r, i, acc, tr) ==
    IF i > Len(NamedFields(T))
    THEN Outcome(Ok(NamedStruct(T, acc)), tr)
    ELSE LET f == NamedFields(T)[i]
             o == NamedRow_get(f.T, r, f.name) IN
         IF ~o.res.ok
         THEN Outcome(o.res, tr \o o.tr)
         ELSE Named_build_fields(T, r, i + 1, Append(acc, o.res.val), tr \o o.tr)

\* QueryableByName::build as derived for a struct
QueryableByName_build(T, r) == Named_build_fields(T, r, 1, <<>>, <<EvNamed(T)>>)

\* variant: the row width is checked before the named build
Untyped_build_from_row_WidthChecked(T, r) ==
    IF Len(r) < Len(NamedFields(T))
    THEN Outcome(Err(UnexpectedEndOfRow), <<>>)
    ELSE QueryableByName_build(T, r)

\* variant: the struct is built by position through the Queryable path
Untyped_build_from_row_Positional(T, r) ==
    Queryable_build_from_row(IF T = "User" THEN "User" ELSE "UserManual", r)

\* fn build_from_row(row) -> Result<Self> { T::build(row) }
Untyped_build_from_row(T, r) == QueryableByName_build(T, r)

----------------------------------------------------------------------------
(* The calls *)

NoArg == [some |-> FALSE, unused |-> TRUE]
NoResult == [none |-> TRUE]

Init ==
    /\ row = <<>>
    /\ op = "fetch"
    /\ target = "none"
    /\ bytes = NoArg
    /\ result = NoResult
    /\ trace = <<>>
    /\ prev = NoResult

\* the driver adds the next column to the row it is fetching
ReceiveField ==
    /\ op = "fetch"
    /\ Len(row) < MaxRowLen
    /\ \E f \in Fields :
          /\ DistinctNames(Append(row, f))
          /\ UnusedNamesInOrder(Append(row, f))
          /\ row' = Append(row, f)
    /\ UNCHANGED <<op, target, bytes, result, trace, prev>>

\* the execution layer drops the row and starts fetching the next one
NextRow ==
    /\ op # "fetch"
    /\ row' = <<>>
    /\ op' = "fetch"
    /\ target' = "none"
    /\ bytes' = NoArg
    /\ result' = NoResult
    /\ trace' = <<>>
    /\ prev' = NoResult

\* the target type of a query is resolved statically: a fetched row is decoded
\* against one target, and may be decoded against it again
Resolves(o, T) == op = "fetch" \/ (op = o /\ target = T)

\* T::from_nullable_sql(field.value()) on a field of the row
CallFromNullableSql ==
    /\ \E T \in ScalarTargets, i \in 1..Len(row) :
          /\ Resolves("from_nullable_sql", T)
          /\ target' = T
          /\ bytes' = row[i].value
          /\ result' = FromSql_from_nullable_sql(T, row[i].value)
          /\ trace' = <<>>
    /\ op' = "from_nullable_sql"
    /\ prev' = NoResult
    /\ row' = row

\* variant: the build consumes the field it reads
RowAfterBuild_Consumed(r) == IF Len(r) > 0 THEN Tail(r) ELSE r

\* build_from_row takes `row: &impl Row`: the row is only borrowed, and read
\* through get() and value(), so the caller's row after the call is the same
RowAfterBuild(r) == r

\* the result of the previous call when it was the same call on the same row
Previous(o, T) == IF op = o /\ target = T THEN result ELSE NoResult

\* <RT as FromStaticSqlRow<ST, DB>>::build_from_row(&row)
CallStaticBuild ==
    /\ \E RT \in StaticTargets :
          LET o == FromStaticSqlRow_build_from_row(RT, row) IN
          /\ Resolves("static", RT)
          /\ target' = RT
          /\ result' = o.res
          /\ trace' = o.tr
          /\ prev' = Previous("static", RT)
    /\ op' = "static"
    /\ bytes' = NoArg
    /\ row' = RowAfterBuild(row)

\* <T as FromSqlRow<ST, DB>>::build_from_row(&row), T: Queryable<ST, DB>
CallQueryableBuild ==
    /\ \E T \in QueryableTargets :
          LET o == Queryable_build_from_row(T, row) IN
          /\ Resolves("queryable", T)
          /\ target' = T
          /\ result' = o.res
          /\ trace' = o.tr
          /\ prev' = Previous("queryable", T)
    /\ op' = "queryable"
    /\ bytes' = NoArg
    /\ row' = RowAfterBuild(row)

\* <T as FromSqlRow<Untyped, DB>>::build_from_row(&row), T: QueryableByName<DB>
CallNamedBuild ==
    /\ \E T \in NamedTargets :
          LET o == Untyped_build_from_row(T, row) IN
          /\ Resolves("byname", T)
          /\ target' = T
          /\ result' = o.res
          /\ trace' = o.tr
          /\ prev' = Previous("byname", T)
    /\ op' = "byname"
    /\ bytes' = NoArg
    /\ row' = RowAfterBuild(row)

Next ==
    \/ ReceiveField
    \/ NextRow
    \/ CallFromNullableSql
    \/ CallStaticBuild
    \/ CallQueryableBuild
    \/ CallNamedBuild

Spec == Init /\ [][Next]_vars

----------------------------------------------------------------------------
(* Reading the events of a call *)

IsGet(e) == e.ev = "get"
IsDecode(e) == e.ev = "from_nullable_sql"
IsAdapter(e) == e.ev = "Queryable::build"
IsStatic(e) == e.ev = "FromStaticSqlRow::build_from_row"

\* the positions read with Row::get, in the order they were read
GetPositions(tr) == LET g == SelectSeq(tr, IsGet) IN [i \in 1..Len(g) |-> g[i].pos]

\* the calls of the scalar decoder, in the order they were made
DecodeCalls(tr) == SelectSeq(tr, IsDecode)

\* <<0, 1, .., n-1>>
UpTo(n) == [i \in 1..n |-> i - 1]

BuildOps == {"static", "queryable", "byname"}

----------------------------------------------------------------------------
\* C1: the default from_nullable_sql answers an absent payload with
\* UnexpectedNull and a present payload P with exactly from_sql(P); a
\* nullable-aware target that overrides it answers an absent payload with its
\* "no value".
C1_NullHandling ==
    op = "from_nullable_sql" =>
        /\ (target \notin NullableTargets /\ ~bytes.some)
              => result = Err(UnexpectedNullError)
        /\ (target \notin NullableTargets /\ bytes.some)
              => result = FromSql_from_sql(target, bytes.val)
        /\ (target \in NullableTargets /\ ~bytes.some)
              => result = Ok(None)

C1_Witness ==
    /\ op = "from_nullable_sql"
    /\ target = "i32"
    /\ ~bytes.some
    /\ result = Err(UnexpectedNullError)

\* C2: the single-value static build of a row without field 0 is
\* UnexpectedEndOfRow and calls no decoder; otherwise it is exactly
\* from_nullable_sql of field 0's value (so [null] against a non-nullable
\* target is UnexpectedNull) and no field at a position >= 1 is read.
C2_SingleValueBuild ==
    (op = "static" /\ target \in ScalarTargets) =>
        /\ Len(row) = 0 =>
              /\ result = Err(UnexpectedEndOfRow)
              /\ DecodeCalls(trace) = <<>>
        /\ Len(row) > 0 =>
              /\ result = FromSql_from_nullable_sql(target, row[1].value)
              /\ result = SingleValue_build_from_row(target, <<row[1]>>).res
              /\ GetPositions(trace) = <<0>>
              /\ DecodeCalls(trace) = <<EvDecode(target, 0)>>
        /\ (Len(row) > 0 /\ ~row[1].value.some /\ target \notin NullableTargets)
              => result = Err(UnexpectedNullError)

C2_Witness ==
    /\ op = "static"
    /\ target = "i32"
    /\ Len(row) = 2
    /\ ~row[1].value.some
    /\ row[2].value.some
    /\ result = Err(UnexpectedNullError)

\* the present positions of a row all decode against their slots
PresentDecode(Ts, r) ==
    \A i \in 1..Len(r) :
        i <= Len(Ts) => FromSql_from_nullable_sql(Ts[i], r[i].value).ok

\* C3 as stated: a row with fewer than N fields fails with UnexpectedEndOfRow
\* at the first missing position; a row with >= N fields is decoded from its
\* first N positions only.
C3_ShortRowIsEndOfRow ==
    (op = "static" /\ target \in TupleTargets) =>
        LET N == Len(Slots(target)) IN
        /\ Len(row) < N =>
              /\ result = Err(UnexpectedEndOfRow)
              /\ GetPositions(trace) = UpTo(Len(row) + 1)
        /\ Len(row) >= N =>
              result = Tuple_build_from_row(target, SubSeq(row, 1, N)).res

\* C3 amended: a row with fewer than N fields always fails; it fails with
\* UnexpectedEndOfRow at the first missing position when every present
\* position decodes, and otherwise with the error of a present position,
\* before the missing position is read; a row with >= N fields is decoded
\* from its first N positions only.
C3_ShortRow ==
    (op = "static" /\ target \in TupleTargets) =>
        LET N == Len(Slots(target)) IN
        /\ Len(row) < N => ~result.ok
        /\ (Len(row) < N /\ PresentDecode(Slots(target), row)) =>
              /\ result = Err(UnexpectedEndOfRow)
              /\ GetPositions(trace) = UpTo(Len(row) + 1)
        /\ (Len(row) < N /\ ~PresentDecode(Slots(target), row)) =>
              /\ result # Err(UnexpectedEndOfRow)
              /\ Len(GetPositions(trace)) <= Len(row)
        /\ Len(row) >= N =>
              /\ result = Tuple_build_from_row(target, SubSeq(row, 1, N)).res
              /\ \A i \in 1..Len(GetPositions(trace)) : GetPositions(trace)[i] < N

C3_Witness ==
    /\ op = "static"
    /\ target = "(i32, String, MyEnum)"
    /\ Len(row) = 2
    /\ PresentDecode(Slots(target), row)
    /\ result = Err(UnexpectedEndOfRow)
    /\ GetPositions(trace) = <<0, 1, 2>>

\* position i (zero-based) of a row cannot be decoded against its slot
FailsAt(Ts, r, i) ==
    \/ i >= Len(r)
    \/ ~FromSql_from_nullable_sql(Ts[i + 1], r[i + 1].value).ok

\* C4: a composite build decodes positions 0, 1, .. in increasing order, each
\* with its own slot's decoder, and stops at the lowest failing position: the
\* error is that position's, nothing after it is read, and the outcome is a
\* complete tuple of length N or an error.
C4_InOrderShortCircuit ==
    (op = "static" /\ target \in TupleTargets) =>
        LET Ts == Slots(target)
            N == Len(Ts)
            F == {i \in 0..(N - 1) : FailsAt(Ts, row, i)}
        IN
        IF F = {}
        THEN /\ result.ok
             /\ Len(result.val) = N
             /\ GetPositions(trace) = UpTo(N)
             /\ DecodeCalls(trace) = [i \in 1..N |-> EvDecode(Ts[i], i - 1)]
        ELSE LET k == CHOOSE i \in F : \A j \in F : i <= j IN
             /\ ~result.ok
             /\ result = IF k >= Len(row)
                         THEN Err(UnexpectedEndOfRow)
                         ELSE FromSql_from_nullable_sql(Ts[k + 1], row[k + 1].value)
             /\ GetPositions(trace) = UpTo(k + 1)
             /\ DecodeCalls(trace) =
                   [i \in 1..(IF k >= Len(row) THEN k ELSE k + 1) |-> EvDecode(Ts[i], i - 1)]

C4_Witness ==
    /\ op = "static"
    /\ target = "(i32, String, MyEnum)"
    /\ Len(row) = 3
    /\ row[1].value.some /\ row[1].value.val.kind = "int"
    /\ ~row[2].value.some
    /\ row[3].value.some /\ row[3].value.val.kind = "text"
    /\ result = Err(UnexpectedNullError)
    /\ GetPositions(trace) = <<0, 1>>

\* C5: the Queryable path first builds the intermediate T::Row with the static
\* row builder; its error is returned as it is and the adapter is not invoked;
\* on success with tuple t the result is exactly Ok(T::build(t)), the adapter
\* having run once (row [1, "Sean"] gives User {id: 1, name: "Sean"}).
C5_QueryablePath ==
    op = "queryable" =>
        LET s == FromStaticSqlRow_build_from_row(Queryable_Row(target), row) IN
        /\ SubSeq(trace, 1, Len(s.tr)) = s.tr
        /\ ~s.res.ok =>
              /\ result = s.res
              /\ SelectSeq(trace, IsAdapter) = <<>>
        /\ s.res.ok =>
              /\ result = Ok(Queryable_build(target, s.res.val))
              /\ SelectSeq(trace, IsAdapter) = <<EvAdapter(target)>>
              /\ trace[Len(trace)] = EvAdapter(target)
        /\ (/\ target = "User"
            /\ Len(row) >= 2
            /\ row[1].value = Some(IntRaw(1))
            /\ row[2].value = Some(TextRaw("Sean")))
              => result = Ok([id |-> 1, name |-> "Sean"])

C5_Witness ==
    /\ op = "queryable"
    /\ target = "User"
    /\ Len(row) = 2
    /\ row[1].value = Some(IntRaw(1))
    /\ row[2].value = Some(TextRaw("Sean"))
    /\ result = Ok([id |-> 1, name |-> "Sean"])
    /\ trace[Len(trace)] = EvAdapter("User")

\* C6: the named path returns exactly what the named row builder T::build
\* returns for the row, value or error, for a row of any width, and calls
\* neither the static row builder nor the Queryable adapter.
C6_NamedPath ==
    op = "byname" =>
        LET n == QueryableByName_build(target, row) IN
        /\ result = n.res
        /\ trace = n.tr
        /\ SelectSeq(trace, IsStatic) = <<>>
        /\ SelectSeq(trace, IsAdapter) = <<>>

C6_Witness ==
    /\ op = "byname"
    /\ target = "User"
    /\ Len(row) = 1
    /\ row[1].name = "extra"
    /\ result = Err(ColumnNotFound("id"))

\* the orders the columns of a row of n columns can come in
ColumnOrders(n) ==
    {p \in [1..n -> 1..n] : \A i, j \in 1..n : p[i] = p[j] => i = j}

Permuted(r, p) == [i \in 1..Len(r) |-> r[p[i]]]

C9_MyEnum ==
    (op = "from_nullable_sql" /\ target = "MyEnum") =>
        /\ ~bytes.some => result = Err(UnexpectedNullError)
        /\ (bytes.some /\ bytes.val.kind = "int") =>
              result = IF bytes.val.int = 1 THEN Ok("MyEnum::A")
                       ELSE IF bytes.val.int = 2 THEN Ok("MyEnum::B")
                       ELSE Err(MessageError("Unrecognized variant {}", bytes.val.int))
        /\ (bytes.some /\ bytes.val.kind # "int") =>
              /\ ~result.ok
              /\ result = i32_from_sql(bytes.val)

C9_Witness ==
    /\ op = "from_nullable_sql"
    /\ target = "MyEnum"
    /\ bytes = Some(IntRaw(3))
    /\ result = Err(MessageError("Unrecognized variant {}", 3))

\* C10: FIELD_COUNT of a Queryable target is the number of slots of its tag,
\* whatever the row, and a successful build of the target has read exactly
\* the positions 0 .. FIELD_COUNT - 1.
C10_FieldCount ==
    op = "queryable" =>
        /\ FIELD_COUNT(target) = Len(Slots(Queryable_Row(target)))
        /\ result.ok => GetPositions(trace) = UpTo(FIELD_COUNT(target))

C10_Witness ==
    /\ op = "queryable"
    /\ target = "UserManual"
    /\ Len(row) = 3
    /\ result.ok
    /\ FIELD_COUNT(target) = 2
    /\ GetPositions(trace) = <<0, 1>>

====
